---------------------------- MODULE Spec2Model ----------------------------
(***************************************************************************)
(* A state-machine model of the Galaxy game (src/game.py, src/config.py,   *)
(* src/highscore.py): the phase flags, the scroll state, the procedural    *)
(* track, the obstacle pool, the jump timers and the high score, driven by *)
(* the frame handler _game_loop and by the input handlers.                 *)
(*                                                                         *)
(* Units.  Python floats are modelled by exact scaled integers:            *)
(*   time            1/60 s      (dt = 1 is one nominal frame, so the      *)
(*                                handler's time_factor = dt * 60 is dt)   *)
(*   speeds          1/1000      (0.8 is 800)                              *)
(*   world y         1/1000                                                *)
(*   world x         1/100000    (the per-frame x speed is kept without    *)
(*                                its division by SPEED_DIVISOR)            *)
(*   size ratios     1/1000      (H_LINES_SPACING 0.15 is 150)             *)
(* With these units every product the handlers compute is an integer as    *)
(* long as level <= 1, which MaxRow guarantees.                            *)
(***************************************************************************)
EXTENDS Integers, Sequences, FiniteSets, TLC

VARIABLES
    state_game_over,         \* self.state_game_over
    state_game_has_started,  \* self.state_game_has_started
    paused,                  \* self.paused
    menu_visible,            \* menu_frame placed (show_menu) or forgotten (hide_menu)
    current_offset_y,        \* self.current_offset_y   (1/1000)
    current_y_loop,          \* self.current_y_loop     (the spec's current_row)
    current_speed_x,         \* self.current_speed_x    (speed unit)
    current_offset_x,        \* self.current_offset_x   (1/100000)
    tiles_coordinates,       \* self.tiles_coordinates  sequence of <<lane, row>>
    obstacle_coords,         \* self.obstacle_coords    sequence of <<lane, row>>
    allow_collisions,        \* self.allow_collisions
    level,                   \* self.level
    difficulty,              \* self.difficulty (= diff_var after every handler)
    speed_y_base,            \* self.speed_y_base
    speed_x_base,            \* self.speed_x_base
    jump_active,             \* self.jump_active
    jump_timer,              \* self.jump_timer
    jump_cooldown_timer,     \* self.jump_cooldown_timer
    high_score,              \* self.high_score
    hs_file,                 \* contents of HIGHSCORE_FILE
    music_var,               \* self.music_var (selected track name)
    pc,                      \* position of _game_loop: "idle" or "loop" (inside the while)
    time_factor,             \* local time_factor of the running _game_loop call
    ticks,                   \* number of _game_loop calls so far (bounded by MaxTicks)
    tick,                    \* history: what the current/last _game_loop call of this run did
    last_spawn,              \* history: outcome of the last _maybe_spawn_obstacle call
    last_game_over,          \* history: what the last _on_game_over call did
    jump_clock,              \* history: jump starts of this run, tick time since the last
    level_banner,            \* the canvas items level_text_item and level_flash_item
    after_queue,             \* Tk's pending after() callbacks other than _game_loop
    audio,                   \* self.audio: sound_enabled and what is playing
    level_log,               \* history: level changes of this run, time since the last
    projection               \* arguments and result of a transform_perspective call

vars == << state_game_over, state_game_has_started, paused, menu_visible,
           current_offset_y, current_y_loop, current_speed_x, current_offset_x,
           tiles_coordinates, obstacle_coords, allow_collisions, level,
           difficulty, speed_y_base, speed_x_base,
           jump_active, jump_timer, jump_cooldown_timer,
           high_score, hs_file, music_var,
           pc, time_factor, ticks, tick, last_spawn, last_game_over, jump_clock,
           level_banner, after_queue, audio, level_log, projection >>

\* What the presentation side of the program writes.
Effects == << level_banner, after_queue, audio, level_log, projection >>

-----------------------------------------------------------------------------
(* Program constants                                                       *)

WINDOW_WIDTH == 1024
WINDOW_HEIGHT == 800

V_NB_LINES == 8
V_LINES_SPACING == 400
H_NB_LINES == 8
H_LINES_SPACING == 150
NB_TILES == 16
SHIP_WIDTH == 100
SHIP_HEIGHT == 35
SHIP_BASE_Y == 40
COLLISION_START_LOOP == 5
MAX_OBSTACLES == 6
JUMP_DURATION == 36
JUMP_COOLDOWN == 18

LEVEL_ROWS == 100
SPEED_GROWTH == 108
INACTIVE == -999
FIRST_TILE_ROW == 5
FIRST_TILE_END == 15

DIFFICULTIES ==
    [ Easy   |-> [speed |-> 600,  speed_x |-> 2500],
      Normal |-> [speed |-> 800,  speed_x |-> 3500],
      Hard   |-> [speed |-> 1100, speed_x |-> 4500] ]

DifficultyNames == {"Easy", "Normal", "Hard"}

\* Two of the keys of AVAILABLE_MUSICS; the first is the default.
MusicNames == {"Level 1 (Original)", "DH - Bang 2020"}

\* The divisor of lines 836 and 858 (speed * size / 100.0).
SPEED_DIVISOR == 100

\* Delays of the after() calls, in ms: the flash and the label of a level
\* change, the return of the menu music, and the next frame.
FLASH_MS == 150
LABEL_MS == 1000
MENU_MUSIC_MS == 2000
FRAME_MS == 16

-----------------------------------------------------------------------------
(* Bounds of the model                                                     *)

\* _game_loop runs at most MaxTicks times in a behaviour.
MaxTicks == 3
\* A tick is taken only while it leaves current_y_loop <= MaxRow (level <= 1).
MaxRow == 110
\* A tick is taken only while it leaves |current_offset_x| <= MaxOffsetX.
MaxOffsetX == 400000000
\* The high-score specification saves the values MinScore .. MaxScore, of
\* which MaxNegative are below 0.
MaxNegative == 3
MinScore == 0 - MaxNegative
MaxScore == 12
ScoreValues == MinScore .. MaxScore
\* The projection specification takes world points on a grid of GridStep
\* pixels (an eighth of the window's height, which keeps the fractions of the
\* projection small): x from -GridStep * GridXs to the double of the window's
\* width, y from below the screen's bottom edge to past the window's height.
GridStep == WINDOW_HEIGHT \div H_NB_LINES
GridXs == 5
GridYs == 2
ProjectXs == { GridStep * i : i \in -GridXs .. (2 * WINDOW_WIDTH) \div GridStep }
               \cup { WINDOW_WIDTH \div 2 }
ProjectYs == { GridStep * i : i \in -GridYs .. WINDOW_HEIGHT \div GridStep + GridYs }
\* random.randint(0, 2) yields a turn only while the generator is placing a
\* tile in rows TurnRowLo .. TurnRowHi; elsewhere the draw is 0 (straight),
\* unless the boundary rule forces a turn.
TurnRowLo == 108
TurnRowHi == TurnRowLo + 1
TurnRows == TurnRowLo .. TurnRowHi
\* The generator specification lets the draw turn in the eight rows from
\* GenRowLo on, the first rows the start-up generation leaves open: room for
\* the four turns that lead from lane 0 to the right boundary or past the
\* left one.
GenRowLo == 21
GenRowHi == GenRowLo + 7
GenTurnRows == GenRowLo .. GenRowHi
HitRowLo == 111
HitRowHi == HitRowLo + 1
HitTurnRows == HitRowLo .. HitRowHi

\* Elapsed times (1/60 s) of a frame: none, a fraction of a row (0.4 of a row
\* at the Easy base speed) and three rows at the Easy base speed.
DtSet == {0, 10, 75}
\* Elapsed time of a frame in the long-run specification: a stalled frame of
\* 110 rows at the Normal base speed, which ends just past the turn rows.
DtSetRun == {2063}

\* Elapsed times of a frame in the level specification: stalled frames of
\* 110 rows at the Hard, Normal and Easy base speeds.
DtSetLevel == {1500, 2063, 2750}

\* Elapsed times of a frame in the steering specification: a stalled frame
\* that ends at row 98 at the Normal base speed, and a frame of four rows.
DtSetSteer == {1850, 75}

\* Elapsed times of a frame in the audio specification: half a second, and
\* two and a half seconds, which is longer than MENU_MUSIC_MS and carries a
\* steered ship off the track.
DtSetAudio == {30, 150}

\* Elapsed times of a frame in the obstacle specification: the same stalled
\* frame, and a frame of 10/60 s that carries the ship's nose into the next row.
DtSetHit == {2063, 10}

\* Elapsed times of a frame in the jump specification, both positive: one
\* shorter than JUMP_COOLDOWN plus a little, one longer than JUMP_DURATION.
DtSetJump == {20, 50}

\* Frames of the jump specification that outlast any jump.
TicksToLand == 2
\* Elapsed time of a frame in the generator specification: a stalled frame
\* of 29 rows at the Normal base speed, which ends just past GenTurnRows.
DtSetGen == {544}

Sentinel == << INACTIVE, INACTIVE >>

-----------------------------------------------------------------------------
(* Pure helpers                                                            *)

Abs(n) == IF n < 0 THEN -n ELSE n

Max(a, b) == IF a >= b THEN a ELSE b

RECURSIVE Pow(_, _)
Pow(b, e) == IF e = 0 THEN 1 ELSE b * Pow(b, e - 1)

\* int(V_NB_LINES / 2): Python's int() of a non-negative float truncates.
start_index == -(V_NB_LINES \div 2) + 1
end_index == start_index + V_NB_LINES - 1

\* spacing_y = H_LINES_SPACING * WINDOW_HEIGHT, one row's height.
spacing_y == H_LINES_SPACING * WINDOW_HEIGHT

\* spacing = V_LINES_SPACING * WINDOW_WIDTH, one lane's width.
spacing_x == V_LINES_SPACING * WINDOW_WIDTH * SPEED_DIVISOR

\* get_line_x_from_index: central_line_x + (index - 0.5) * spacing + offset_x,
\* with central_line_x = perspective_point_x = WINDOW_WIDTH / 2.
get_line_x_from_index(index, offx) ==
    (WINDOW_WIDTH * 1000 * SPEED_DIVISOR) \div 2 + ((2 * index - 1) * spacing_x) \div 2 + offx

\* get_line_y_from_index: index * spacing_y - current_offset_y.
get_line_y_from_index(index, offy) == index * spacing_y - offy

\* get_tile_coordinates: the row is first made relative to current_y_loop.
get_tile_coordinates(ti_x, ti_y, row, offy, offx) ==
    << get_line_x_from_index(ti_x, offx), get_line_y_from_index(ti_y - row, offy) >>

\* _update_ship: the three world-space vertices (left, bottom, right).
ship_coordinates ==
    LET center_x   == (WINDOW_WIDTH * 1000 * SPEED_DIVISOR) \div 2
        base_y     == SHIP_BASE_Y * WINDOW_HEIGHT
        half_width == (SHIP_WIDTH * WINDOW_WIDTH * SPEED_DIVISOR) \div 2
        ship_h     == SHIP_HEIGHT * WINDOW_HEIGHT
    IN  << << center_x - half_width, base_y >>,
           << center_x, base_y + ship_h >>,
           << center_x + half_width, base_y >> >>

-----------------------------------------------------------------------------
(* Perspective projection: transform_perspective                           *)

\* Lines 48-49: the vanishing point, WINDOW_WIDTH / 2 and WINDOW_HEIGHT * 0.75.
perspective_point_x == WINDOW_WIDTH \div 2
perspective_point_y == (WINDOW_HEIGHT * 3) \div 4

\* The floats of the projection are modelled by exact fractions n / d, d > 0,
\* in lowest terms.
RECURSIVE GCD(_, _)
GCD(a, b) == IF b = 0 THEN a ELSE GCD(b, a % b)

Frac(n, d) ==
    LET g == GCD(Abs(n), Abs(d))
        sg == IF d < 0 THEN -1 ELSE 1
    IN  [ n |-> sg * (n \div g), d |-> sg * (d \div g) ]

FracMul(a, b) == Frac(a.n * b.n, a.d * b.d)

\* int(float): truncation towards zero.
Trunc(a) == IF a.n >= 0 THEN a.n \div a.d ELSE -((-a.n) \div a.d)

\* A projection without the clamp of lines 321-322.
TransformPerspectiveUnclamped(x, y) ==
    LET lin_y    == Frac(y * perspective_point_y, WINDOW_HEIGHT)
        diff_x   == x - perspective_point_x
        diff_y   == Frac(perspective_point_y * lin_y.d - lin_y.n, lin_y.d)
        ratio    == Frac(diff_y.n, diff_y.d * perspective_point_y)
        square   == FracMul(ratio, ratio)
        factor_y == FracMul(square, square)
        tr_x     == Frac(perspective_point_x * factor_y.d + diff_x * factor_y.n, factor_y.d)
        tr_y     == Frac(perspective_point_y * factor_y.d
                            - factor_y.n * perspective_point_y, factor_y.d)
        tr_y_tk  == Frac(WINDOW_HEIGHT * tr_y.d - tr_y.n, tr_y.d)
    IN  [ x |-> x, y |-> y, factor_y |-> factor_y,
          out |-> << Trunc(tr_x), Trunc(tr_y_tk) >> ]

\* transform_perspective, lines 312-342, with its depth factor.
transform_perspective(x, y) ==
    LET lin_y0   == Frac(y * perspective_point_y, WINDOW_HEIGHT)
        lin_y    == IF lin_y0.n > perspective_point_y * lin_y0.d
                    THEN Frac(perspective_point_y, 1) ELSE lin_y0
        diff_x   == x - perspective_point_x
        diff_y   == Frac(perspective_point_y * lin_y.d - lin_y.n, lin_y.d)
        ratio    == Frac(diff_y.n, diff_y.d * perspective_point_y)
        square   == FracMul(ratio, ratio)
        factor_y == FracMul(square, square)
        tr_x     == Frac(perspective_point_x * factor_y.d + diff_x * factor_y.n, factor_y.d)
        tr_y     == Frac(perspective_point_y * factor_y.d
                            - factor_y.n * perspective_point_y, factor_y.d)
        tr_y_tk  == Frac(WINDOW_HEIGHT * tr_y.d - tr_y.n, tr_y.d)
    IN  [ x |-> x, y |-> y, factor_y |-> factor_y,
          out |-> << Trunc(tr_x), Trunc(tr_y_tk) >> ]

-----------------------------------------------------------------------------
(* High-score file: src/highscore.py                                       *)

\* HIGHSCORE_FILE is missing, cannot be opened for reading, or holds a text,
\* a sequence of characters.
NoFile == [kind |-> "missing", text |-> << >>]
Unreadable == [kind |-> "unreadable", text |-> << >>]
TextFile(t) == [kind |-> "text", text |-> t]

DecimalDigits == << "0", "1", "2", "3", "4", "5", "6", "7", "8", "9" >>

IsDigit(c) == \E d \in 1 .. 10 : DecimalDigits[d] = c

DigitValue(c) == (CHOOSE d \in 1 .. 10 : DecimalDigits[d] = c) - 1

\* str(n) of a Python int: the decimal digits, after a minus sign if n < 0.
RECURSIVE StrNat(_)
StrNat(n) ==
    IF n < 10 THEN << DecimalDigits[n + 1] >>
    ELSE Append(StrNat(n \div 10), DecimalDigits[(n % 10) + 1])

str(n) == IF n < 0 THEN << "-" >> \o StrNat(-n) ELSE StrNat(n)

\* str.strip(): leading and trailing whitespace removed.
IsSpace(c) == c \in {" ", "\n", "\t", "\r"}

RECURSIVE lstrip(_)
lstrip(t) == IF t # << >> /\ IsSpace(Head(t)) THEN lstrip(Tail(t)) ELSE t

RECURSIVE rstrip(_)
rstrip(t) ==
    IF t # << >> /\ IsSpace(t[Len(t)]) THEN rstrip(SubSeq(t, 1, Len(t) - 1)) ELSE t

strip(t) == lstrip(rstrip(t))

\* The part of an integer literal after its optional sign.
Unsigned(t) == IF t # << >> /\ Head(t) \in {"+", "-"} THEN Tail(t) ELSE t

\* int(text) raises ValueError unless the text is an optional sign followed
\* by decimal digits, single underscores allowed between two digits.
IntParses(t) ==
    LET u == Unsigned(t)
    IN  /\ u # << >>
        /\ IsDigit(u[1]) /\ IsDigit(u[Len(u)])
        /\ \A i \in 1 .. Len(u) : IsDigit(u[i]) \/ u[i] = "_"
        /\ \A i \in 1 .. Len(u) - 1 : ~(u[i] = "_" /\ u[i + 1] = "_")

RECURSIVE DigitsValue(_, _)
DigitsValue(u, acc) ==
    IF u = << >> THEN acc
    ELSE IF Head(u) = "_" THEN DigitsValue(Tail(u), acc)
    ELSE DigitsValue(Tail(u), 10 * acc + DigitValue(Head(u)))

\* int(text) of a text that parses.
int(t) ==
    IF t[1] = "-" THEN -DigitsValue(Unsigned(t), 0) ELSE DigitsValue(Unsigned(t), 0)

\* A load that does not strip the text.
LoadHighScoreNoStrip(file) ==
    IF file.kind # "text" THEN 0
    ELSE IF ~IntParses(file.text) THEN 0
    ELSE Max(0, int(file.text))

\* load_high_score: max(0, int(f.read().strip())); 0 on any exception (the
\* file is missing or unreadable, or int() raises ValueError).
load_high_score(file) ==
    IF file.kind # "text" THEN 0
    ELSE IF ~IntParses(strip(file.text)) THEN 0
    ELSE Max(0, int(strip(file.text)))

\* The outcomes of save_high_score's open and write: both succeed, open()
\* raises, or write() raises after open() has truncated the file.
WriteOutcomes == {"written", "open fails", "write fails"}

\* The file a saved score leaves, and the files at start-up.
IntFile(n) == TextFile(str(n))
InitFiles == {NoFile, IntFile(7)}

\* Files of the high-score specification: missing, unreadable, empty, plain
\* and padded integers, signs, leading zeros, a digit group, and texts that
\* are no integer.
ScoreFiles ==
    { NoFile, Unreadable, TextFile(<< >>), TextFile(<< "\n" >>),
      TextFile(<< "7" >>), TextFile(<< "7", "\n" >>),
      TextFile(<< " ", "1", "2", " ", "\n" >>),
      TextFile(<< "-", "3" >>), TextFile(<< "+", "5" >>),
      TextFile(<< "0", "0", "9" >>), TextFile(<< "1", "_", "0" >>),
      TextFile(<< "7", ".", "5" >>), TextFile(<< "a", "b" >>),
      TextFile(<< "1", " ", "2" >>), TextFile(<< "-" >>),
      TextFile(<< "_", "1" >>), TextFile(<< "-", " ", "3" >>) }

-----------------------------------------------------------------------------
(* Track generator: _generate_tiles_coordinates                            *)

Last(seq) == seq[Len(seq)]

\* The values random.randint(0, 2) may return while the generator is about
\* to place a tile in row last_y, when the random stream turns only in the
\* rows `turns` (see TurnRows, GenTurnRows).
RandInt(last_y, turns) ==
    IF last_y \in turns THEN 0 .. 2 ELSE {0}

\* A generator that never evicts.
EvictTilesNone(tiles, row) == tiles

\* Lines 461-463: remove the tiles that have scrolled below current_y_loop.
EvictTiles(tiles, row) == SelectSeq(tiles, LAMBDA t : ~(t[2] < row))

\* A generator without the boundary rule.
ForceMoveNever(r, last_x) == r

\* Lines 476-483: the boundary rule applied to the draw r.
ForceMove(r, last_x) ==
    LET r1 == IF last_x <= start_index THEN 1 ELSE r
    IN  IF last_x >= end_index THEN 2 ELSE r1

\* A turn that leaves out the transition tile of the turn's first row.
GenStepDiagonal(g, r) ==
    LET placed == Append(g.tiles, << g.last_x, g.last_y >>)
    IN  IF r = 1 THEN
            [ tiles  |-> Append(placed, << g.last_x + 1, g.last_y + 1 >>),
              last_x |-> g.last_x + 1,
              last_y |-> g.last_y + 2 ]
        ELSE IF r = 2 THEN
            [ tiles  |-> Append(placed, << g.last_x - 1, g.last_y + 1 >>),
              last_x |-> g.last_x - 1,
              last_y |-> g.last_y + 2 ]
        ELSE
            [ tiles  |-> placed, last_x |-> g.last_x, last_y |-> g.last_y + 1 ]

\* Lines 486-499: one iteration of the for loop with the (already forced)
\* move r; g is [tiles, last_x, last_y].
GenStep(g, r) ==
    LET placed == Append(g.tiles, << g.last_x, g.last_y >>)
    IN  IF r = 1 THEN
            [ tiles  |-> placed \o << << g.last_x + 1, g.last_y >>,
                                      << g.last_x + 1, g.last_y + 1 >> >>,
              last_x |-> g.last_x + 1,
              last_y |-> g.last_y + 2 ]
        ELSE IF r = 2 THEN
            [ tiles  |-> placed \o << << g.last_x - 1, g.last_y >>,
                                      << g.last_x - 1, g.last_y + 1 >> >>,
              last_x |-> g.last_x - 1,
              last_y |-> g.last_y + 2 ]
        ELSE
            [ tiles  |-> placed, last_x |-> g.last_x, last_y |-> g.last_y + 1 ]

\* The for loop of lines 474-499 run n times from g: the set of tile lists
\* it can produce, one per sequence of draws.
RECURSIVE GenLoop(_, _, _)
GenLoop(g, n, turns) ==
    IF n <= 0 THEN { g.tiles }
    ELSE UNION { GenLoop(GenStep(g, ForceMove(r, g.last_x)), n - 1, turns) :
                 r \in RandInt(g.last_y, turns) }

\* Lines 461-499: eviction, continuation point, generation.  range(len, NB_TILES)
\* is evaluated once, so the number of iterations is fixed on entry.
GenerateTiles(tiles, row, turns) ==
    LET kept == EvictTiles(tiles, row)
        g0   == IF Len(kept) > 0
                THEN [ tiles |-> kept, last_x |-> Last(kept)[1], last_y |-> Last(kept)[2] + 1 ]
                ELSE [ tiles |-> kept, last_x |-> 0, last_y |-> FIRST_TILE_ROW ]
    IN  GenLoop(g0, NB_TILES - Len(kept), turns)

\* _reset_tiles, lines 288-290: the initial straight track (0, 5) .. (0, 14).
InitialTrack == [ i \in 1 .. (FIRST_TILE_END - FIRST_TILE_ROW) |-> << 0, FIRST_TILE_ROW + i - 1 >> ]

-----------------------------------------------------------------------------
(* Obstacle spawn: _maybe_spawn_obstacle                                   *)

\* The lanes of row y with no regard for how far ahead the row is.
RowLanesAnyRow(tiles, row, y) ==
    { tiles[i][1] : i \in { j \in 1 .. Len(tiles) : tiles[j][2] = y } }

\* Lines 568-572: the lanes of row y among the tiles far enough ahead.
RowLanes(tiles, row, y) ==
    { tiles[i][1] : i \in { j \in 1 .. Len(tiles) : tiles[j][2] = y /\ ~(y <= row + 1) } }

\* Lines 568-575: the rows with at least two lanes.
Candidates(tiles, row) ==
    { y \in { tiles[i][2] : i \in 1 .. Len(tiles) } :
        Cardinality(RowLanes(tiles, row, y)) >= 2 }

\* Lines 585-588: obstacle_coords.index((-999, -999)), 0 when there is none.
FreeSlot(obs) ==
    IF \E i \in 1 .. Len(obs) : obs[i] = Sentinel
    THEN CHOOSE i \in 1 .. Len(obs) :
            obs[i] = Sentinel /\ \A j \in 1 .. (i - 1) : obs[j] # Sentinel
    ELSE 0

\* A placement that grows the pool when no slot is free.
PlaceObstacleGrowing(obs, ti_x, ti_y) ==
    LET idx == FreeSlot(obs)
    IN  IF idx = 0
        THEN [ obs |-> Append(obs, << ti_x, ti_y >>),
               kind |-> "placed", x |-> ti_x, y |-> ti_y ]
        ELSE [ obs |-> [obs EXCEPT ![idx] = << ti_x, ti_y >>],
               kind |-> "placed", x |-> ti_x, y |-> ti_y ]

\* A placement that recycles the first slot when no slot is free.
PlaceObstacleOverwriting(obs, ti_x, ti_y) ==
    LET idx == FreeSlot(obs)
    IN  [ obs |-> [obs EXCEPT ![IF idx = 0 THEN 1 ELSE idx] = << ti_x, ti_y >>],
          kind |-> "placed", x |-> ti_x, y |-> ti_y ]

\* Lines 585-591: place (ti_x, ti_y) in the free slot, or drop it.
PlaceObstacle(obs, ti_x, ti_y) ==
    LET idx == FreeSlot(obs)
    IN  IF idx = 0
        THEN [ obs |-> obs, kind |-> "dropped", x |-> ti_x, y |-> ti_y ]
        ELSE [ obs |-> [obs EXCEPT ![idx] = << ti_x, ti_y >>],
               kind |-> "placed", x |-> ti_x, y |-> ti_y ]

\* The whole of _maybe_spawn_obstacle: the set of its possible outcomes, each
\* the new obstacle_coords with what happened.  random.random() > prob can go
\* either way because 0 < prob <= 0.7.
MaybeSpawnObstacle(tiles, row, lvl, obs) ==
    IF lvl < 1
    THEN { [ obs |-> obs, kind |-> "below level", x |-> INACTIVE, y |-> INACTIVE ] }
    ELSE { [ obs |-> obs, kind |-> "no draw", x |-> INACTIVE, y |-> INACTIVE ] }
         \cup
         ( IF Candidates(tiles, row) = {}
           THEN { [ obs |-> obs, kind |-> "no candidate", x |-> INACTIVE, y |-> INACTIVE ] }
           ELSE { PlaceObstacle(obs, ti_x, row_y) :
                    << ti_x, row_y >> \in
                      UNION { { << x, y >> : x \in RowLanes(tiles, row, y) } :
                              y \in Candidates(tiles, row) } } )

\* _update_obstacles, lines 431-439: a passed obstacle returns to the pool.
UpdateObstacles(obs, row) ==
    [ i \in 1 .. Len(obs) |->
        IF obs[i][1] # INACTIVE /\ obs[i][2] < row - 1 THEN Sentinel ELSE obs[i] ]

-----------------------------------------------------------------------------
(* Collision engine                                                        *)

\* A containment test with strict comparisons.
CheckShipCollisionWithTileStrict(ti_x, ti_y, row, offy, offx) ==
    LET lo == get_tile_coordinates(ti_x, ti_y, row, offy, offx)
        hi == get_tile_coordinates(ti_x + 1, ti_y + 1, row, offy, offx)
    IN  \E v \in 1 .. 3 :
            /\ lo[1] < ship_coordinates[v][1] /\ ship_coordinates[v][1] < hi[1]
            /\ lo[2] < ship_coordinates[v][2] /\ ship_coordinates[v][2] < hi[2]

\* _check_ship_collision_with_tile: some ship vertex lies in the closed
\* world-space box of the cell (ti_x, ti_y).
CheckShipCollisionWithTile(ti_x, ti_y, row, offy, offx) ==
    LET lo == get_tile_coordinates(ti_x, ti_y, row, offy, offx)
        hi == get_tile_coordinates(ti_x + 1, ti_y + 1, row, offy, offx)
    IN  \E v \in 1 .. 3 :
            /\ lo[1] <= ship_coordinates[v][1] /\ ship_coordinates[v][1] <= hi[1]
            /\ lo[2] <= ship_coordinates[v][2] /\ ship_coordinates[v][2] <= hi[2]

\* A window that stops at the ship's own row.
InRowWindowBehind(ti_y, row) == ~(ti_y < row - 1) /\ ~(ti_y > row)

\* Lines 615-618 and 636: the rows the checks look at.
InRowWindow(ti_y, row) == ~(ti_y < row - 1) /\ ~(ti_y > row + 2)

\* An off-track check that never reports.
CheckShipCollisionsSuppressed(allow, tiles, row, offy, offx) == FALSE

\* An off-track check that ignores allow_collisions.
CheckShipCollisionsUngated(allow, tiles, row, offy, offx) ==
    ~ \E i \in 1 .. Len(tiles) :
          /\ InRowWindow(tiles[i][2], row)
          /\ CheckShipCollisionWithTile(tiles[i][1], tiles[i][2], row, offy, offx)

\* _check_ship_collisions: off the track when no nearby tile holds a vertex.
CheckShipCollisions(allow, tiles, row, offy, offx) ==
    IF ~allow THEN FALSE
    ELSE ~ \E i \in 1 .. Len(tiles) :
              /\ InRowWindow(tiles[i][2], row)
              /\ CheckShipCollisionWithTile(tiles[i][1], tiles[i][2], row, offy, offx)

\* An obstacle check that goes on during a jump.
CheckObstacleCollisionWhileJumping(lvl, jact, obs, row, offy, offx) ==
    IF lvl < 1 THEN FALSE
    ELSE \E i \in 1 .. Len(obs) :
              /\ obs[i][1] # INACTIVE
              /\ InRowWindow(obs[i][2], row)
              /\ CheckShipCollisionWithTile(obs[i][1], obs[i][2], row, offy, offx)

\* _check_obstacle_collision.
CheckObstacleCollision(lvl, jact, obs, row, offy, offx) ==
    IF lvl < 1 THEN FALSE
    ELSE IF jact THEN FALSE
    ELSE \E i \in 1 .. Len(obs) :
              /\ obs[i][1] # INACTIVE
              /\ InRowWindow(obs[i][2], row)
              /\ CheckShipCollisionWithTile(obs[i][1], obs[i][2], row, offy, offx)

-----------------------------------------------------------------------------
(* Progression engine                                                      *)

\* A speed that does not grow with the level.
LevelSpeedFlat(base, band) == base

\* Lines 548-551: base * 1.08 ** band (exact for band <= 1 in these units).
LevelSpeed(base, band) == (base * Pow(SPEED_GROWTH, band)) \div Pow(100, band)

\* A level change at every row of a band above 0.
UpdateLevelEveryRow(row, lvl, diff, sy, sx) ==
    LET band == row \div LEVEL_ROWS
    IN  IF band > 0
        THEN [ level |-> band, changed |-> TRUE,
               speed_y_base |-> LevelSpeed(DIFFICULTIES[diff].speed, band),
               speed_x_base |-> LevelSpeed(DIFFICULTIES[diff].speed_x, band) ]
        ELSE [ level |-> lvl, changed |-> FALSE,
               speed_y_base |-> sy, speed_x_base |-> sx ]

\* _update_tile_color_by_score with _on_level_changed: the level and speeds
\* after the call made with current_y_loop = row.
UpdateLevel(row, lvl, diff, sy, sx) ==
    LET band == row \div LEVEL_ROWS
    IN  IF band > 0 /\ band # lvl
        THEN [ level |-> band, changed |-> TRUE,
               speed_y_base |-> LevelSpeed(DIFFICULTIES[diff].speed, band),
               speed_x_base |-> LevelSpeed(DIFFICULTIES[diff].speed_x, band) ]
        ELSE [ level |-> lvl, changed |-> FALSE,
               speed_y_base |-> sy, speed_x_base |-> sx ]

-----------------------------------------------------------------------------
(* Jump timers: _update_jump_timers                                        *)

\* Jump timers that never move.
UpdateJumpTimersFrozen(jact, jt, jc, dt) ==
    [ jump_active |-> jact, jump_timer |-> jt, jump_cooldown_timer |-> jc ]

\* Jump timers under which a jump never ends.
UpdateJumpTimersNoLanding(jact, jt, jc, dt) ==
    LET jt1 == IF jact THEN jt - dt ELSE jt
        jc1 == IF jc > 0 THEN (IF jc - dt < 0 THEN 0 ELSE jc - dt) ELSE jc
    IN  [ jump_active |-> jact, jump_timer |-> jt1, jump_cooldown_timer |-> jc1 ]

UpdateJumpTimers(jact, jt, jc, dt) ==
    LET jt1   == IF jact THEN jt - dt ELSE jt
        jact1 == IF jact /\ jt1 <= 0 THEN FALSE ELSE jact
        jc1   == IF jc > 0 THEN (IF jc - dt < 0 THEN 0 ELSE jc - dt) ELSE jc
    IN  [ jump_active |-> jact1, jump_timer |-> jt1, jump_cooldown_timer |-> jc1 ]

-----------------------------------------------------------------------------
(* High score                                                              *)

\* save_high_score: writes str(int(value)); an exception is swallowed, and
\* leaves the file as it was (open) or empty (write).
save_high_score(value, file, outcome) ==
    IF outcome = "written" THEN TextFile(str(value))
    ELSE IF outcome = "write fails" THEN TextFile(<< >>)
    ELSE file

\* An update and save at every game over.
BeatsHighScoreAlways(row, hs) == TRUE

\* _on_game_over, line 799: the test that guards the update and the save.
BeatsHighScore(row, hs) == row > hs

-----------------------------------------------------------------------------
(* Tk's after() callbacks, the level banner and the audio                  *)

\* Time is counted in thirds of a millisecond, the unit in which both the
\* after() delays and the frame times (1/60 s = 50 thirds of a ms) are whole.
Ms(ms) == 3 * ms

\* Lines 819-821: the wall time dt between two frames.
DtTime(dt) == 50 * dt

\* after(ms, callback): Tk keeps its timer handlers ordered by due time, a new
\* one behind those of the same time.  `due` is the time left.
Schedule(queue, callback, ms) ==
    LET e == [ callback |-> callback, due |-> Ms(ms) ]
        k == Cardinality({ i \in 1 .. Len(queue) : queue[i].due <= e.due })
    IN  SubSeq(queue, 1, k) \o << e >> \o SubSeq(queue, k + 1, Len(queue))

\* The items and the audio before any level change or sound.
NoBanner == [ text |-> 0, text_state |-> "hidden", flash_state |-> "hidden" ]

\* AudioManager.play_menu_music, lines 54-59.
play_menu_music(a) ==
    IF ~a.sound_enabled THEN a ELSE [ a EXCEPT !.menu_music = TRUE ]

\* AudioManager.stop_menu_music, lines 61-64.
stop_menu_music(a) == [ a EXCEPT !.menu_music = FALSE ]

\* AudioManager.play_game_music, lines 75-85 (the music file exists).
play_game_music(a) ==
    IF ~a.sound_enabled THEN a ELSE [ a EXCEPT !.game_music = TRUE ]

\* AudioManager.stop_game_music, lines 87-89.
stop_game_music(a) == [ a EXCEPT !.game_music = FALSE ]

\* AudioManager.toggle_sound, lines 92-105.
toggle_sound(a) ==
    LET b == [ a EXCEPT !.sound_enabled = ~a.sound_enabled ]
    IN  IF ~b.sound_enabled THEN stop_game_music(stop_menu_music(b)) ELSE b

\* The three callbacks handed to after(): the lambdas of lines 544 and 545
\* and audio.play_menu_music of line 813.  fx holds the banner, the queue
\* and the audio.
RunCallback(callback, fx) ==
    IF callback = "hide_flash"
    THEN [ fx EXCEPT !.banner.flash_state = "hidden" ]
    ELSE IF callback = "hide_text"
    THEN [ fx EXCEPT !.banner.text_state = "hidden" ]
    ELSE [ fx EXCEPT !.audio = play_menu_music(fx.audio) ]

\* _on_level_changed, lines 519-545: the label LEVEL band + 1 and the flash
\* are shown, and their two hide callbacks are scheduled.
OnLevelChanged(fx, band) ==
    [ fx EXCEPT !.banner = [ text |-> band + 1, text_state |-> "normal",
                             flash_state |-> "normal" ],
                !.queue = Schedule(Schedule(fx.queue, "hide_flash", FLASH_MS),
                                   "hide_text", LABEL_MS) ]

\* _on_game_over, lines 807-813: the game music stops and the menu music is
\* scheduled to return.
OnGameOverAudio(fx) ==
    [ fx EXCEPT !.audio = stop_game_music(fx.audio),
                !.queue = Schedule(fx.queue, "play_menu_music", MENU_MUSIC_MS) ]

\* Tk serves the timer handlers that are due in order of due time.  The next
\* frame is due FRAME_MS after the last one, so a callback due earlier runs
\* before the frame handler ...
RECURSIVE ServeBefore(_, _)
ServeBefore(fx, elapsed) ==
    IF /\ fx.queue # << >>
       /\ Head(fx.queue).due < Ms(FRAME_MS)
       /\ Head(fx.queue).due <= elapsed
    THEN ServeBefore(RunCallback(Head(fx.queue).callback,
                                 [ fx EXCEPT !.queue = Tail(fx.queue) ]), elapsed)
    ELSE fx

\* ... the time left of the others shrinks by the frame's wall time ...
Age(queue, elapsed) ==
    [ i \in 1 .. Len(queue) |->
        [ queue[i] EXCEPT !.due = IF @ <= elapsed THEN 0 ELSE @ - elapsed ] ]

\* ... and those that have become due run right after the frame handler, in
\* the same round of the event loop; a callback the frame has just scheduled
\* has time left and waits.
RECURSIVE ServeDue(_)
ServeDue(fx) ==
    IF fx.queue # << >> /\ Head(fx.queue).due = 0
    THEN ServeDue(RunCallback(Head(fx.queue).callback,
                              [ fx EXCEPT !.queue = Tail(fx.queue) ]))
    ELSE fx

\* The banner, the queue and the audio as they stand.
CurrentFx == [ banner |-> level_banner, queue |-> after_queue, audio |-> audio ]

SetFx(fx) ==
    /\ level_banner' = fx.banner
    /\ after_queue' = fx.queue
    /\ audio' = fx.audio

-----------------------------------------------------------------------------
(* Phases                                                                  *)

\* A simulation that ignores the paused flag.
PlayingIgnoringPause == ~state_game_over /\ state_game_has_started

\* Line 834: the condition under which the game logic of a frame runs.
Playing == ~state_game_over /\ state_game_has_started /\ ~paused

Phase ==
    IF state_game_over THEN "GameOver"
    ELSE IF ~state_game_has_started THEN "Menu"
    ELSE IF paused THEN "Paused"
    ELSE "Playing"

ZeroTick == [ playing |-> FALSE, row0 |-> 0, total |-> 0, crossings |-> 0,
              gens |-> 0, spawns |-> 0, colors |-> 0, game_over |-> FALSE,
              off_track |-> FALSE, obstacle_hit |-> FALSE ]

NoSpawn == [ kind |-> "below level", x |-> INACTIVE, y |-> INACTIVE ]

NoGameOver == [ happened |-> FALSE, row |-> 0, prev_high |-> 0,
                saved |-> FALSE, save_arg |-> 0 ]

\* No level change yet.  fired: the bands of this run's level changes; band
\* and elapsed: the band of the last level change and the time since.
NoLevelLog == [ fired |-> << >>, band |-> 0, elapsed |-> 0 ]

\* The level log after a frame of dt; the clock stops at LABEL_MS.
AdvanceLevelLog(log, dt) ==
    IF log.band = 0 THEN log
    ELSE IF log.elapsed + DtTime(dt) < Ms(LABEL_MS)
    THEN [ log EXCEPT !.elapsed = @ + DtTime(dt) ]
    ELSE [ log EXCEPT !.elapsed = Ms(LABEL_MS) ]

\* No jump has started in this run.
NoJump == [ started |-> FALSE, elapsed |-> 0, starts |-> 0 ]

\* The jump clock after a tick of dt; it stops at JUMP_DURATION + JUMP_COOLDOWN.
AdvanceClock(clock, dt) ==
    IF ~clock.started THEN clock
    ELSE IF clock.elapsed + dt < JUMP_DURATION + JUMP_COOLDOWN
    THEN [ clock EXCEPT !.elapsed = @ + dt ]
    ELSE [ clock EXCEPT !.elapsed = JUMP_DURATION + JUMP_COOLDOWN ]

-----------------------------------------------------------------------------
(* Initial state: GalaxyGame.__init__ followed by main's show_menu          *)

\* The start-up state with the generator's turns and the file drawn from the
\* given sets.
InitWith(turns, files) ==
    /\ state_game_over = FALSE
    /\ state_game_has_started = FALSE
    /\ paused = FALSE
    /\ menu_visible = TRUE
    /\ current_offset_y = 0
    /\ current_y_loop = 0
    /\ current_speed_x = 0
    /\ current_offset_x = 0
    /\ tiles_coordinates \in GenerateTiles(InitialTrack, 0, turns)
    /\ obstacle_coords = [ i \in 1 .. MAX_OBSTACLES |-> Sentinel ]
    /\ allow_collisions = FALSE
    /\ level = 0
    /\ difficulty = "Normal"
    /\ speed_y_base = DIFFICULTIES["Normal"].speed
    /\ speed_x_base = DIFFICULTIES["Normal"].speed_x
    /\ jump_active = FALSE
    /\ jump_timer = 0
    /\ jump_cooldown_timer = 0
    /\ hs_file \in files
    /\ high_score = load_high_score(hs_file)
    /\ music_var = "Level 1 (Original)"
    /\ pc = "idle"
    /\ time_factor = 0
    /\ ticks = 0
    /\ tick = ZeroTick
    /\ last_spawn = NoSpawn
    /\ last_game_over = NoGameOver
    /\ jump_clock = NoJump
    /\ level_banner = NoBanner
    /\ after_queue = << >>
    /\ audio = play_menu_music([ sound_enabled |-> TRUE, menu_music |-> FALSE,
                                 game_music |-> FALSE ])
    /\ level_log = NoLevelLog
    /\ projection = transform_perspective(0, 0)

\* The game specifications leave drawing out: there the projection stays
\* that of the world's origin.
InitFrom(turns) == InitWith(turns, InitFiles)

Init == InitFrom(TurnRows)

-----------------------------------------------------------------------------
(* The frame handler _game_loop                                            *)

\* _on_game_over, lines 795-805 (its audio calls change no modelled state).
OnGameOver(row) ==
    /\ state_game_over' = TRUE
    /\ state_game_has_started' = FALSE
    /\ menu_visible' = TRUE
    /\ IF BeatsHighScore(row, high_score)
       THEN /\ high_score' = row
            /\ \E out \in WriteOutcomes : hs_file' = save_high_score(row, hs_file, out)
            /\ last_game_over' = [ happened |-> TRUE, row |-> row,
                                   prev_high |-> high_score,
                                   saved |-> TRUE, save_arg |-> row ]
       ELSE /\ UNCHANGED << high_score, hs_file >>
            /\ last_game_over' = [ happened |-> TRUE, row |-> row,
                                   prev_high |-> high_score,
                                   saved |-> FALSE, save_arg |-> 0 ]

\* Lines 857-863, after the while loop: horizontal movement, then the two
\* collision checks on the state the loop left, then game over.
AfterLoop(tf, row, offy, tiles, obs, lvl, allow, jact, tk, fx) ==
    LET offx == current_offset_x + (current_speed_x * WINDOW_WIDTH) * tf
    IN  /\ current_offset_x' = offx
        /\ pc' = "idle"
        /\ time_factor' = 0
        /\ LET off == CheckShipCollisions(allow, tiles, row, offy, offx)
                \* `or` evaluates the obstacle check only when the first is false
                hit == ~off /\ CheckObstacleCollision(lvl, jact, obs, row, offy, offx)
                tk1 == [tk EXCEPT !.off_track = off, !.obstacle_hit = hit]
            IN  IF off \/ hit
                THEN /\ OnGameOver(row)
                     /\ SetFx(ServeDue(OnGameOverAudio(fx)))
                     /\ tick' = [tk1 EXCEPT !.game_over = TRUE]
                ELSE /\ UNCHANGED << state_game_over, state_game_has_started, menu_visible,
                                     high_score, hs_file, last_game_over >>
                     /\ SetFx(ServeDue(fx))
                     /\ tick' = tk1

\* An `if` in place of the `while`: at most one crossing per call.
WhileTestOnce(offy, done) == done = 0 /\ offy >= spacing_y

\* A strict comparison in place of >=.
WhileTestStrict(offy, done) == offy > spacing_y

\* Line 841: the test of the while loop on current_offset_y, evaluated after
\* `done` iterations of this call.
WhileTest(offy, done) == offy >= spacing_y

\* The bounds on a Playing tick of dt: rows and horizontal drift stay capped.
WithinBounds(dt) ==
    LET adv == ((speed_y_base * WINDOW_HEIGHT) \div SPEED_DIVISOR) * dt
    IN  /\ current_y_loop + (current_offset_y + adv) \div spacing_y <= MaxRow
        /\ IF current_speed_x = 0 \/ dt = 0 THEN TRUE
           ELSE IF dt > MaxOffsetX \div (Abs(current_speed_x) * WINDOW_WIDTH) THEN FALSE
           ELSE Abs(current_offset_x + (current_speed_x * WINDOW_WIDTH) * dt) <= MaxOffsetX

\* _game_loop from its entry (lines 818-837) up to the first test of the
\* while loop; when no row boundary is crossed it runs to its end.
Tick(dt) ==
    /\ pc = "idle"
    /\ UNCHANGED projection
    /\ ticks < MaxTicks
    /\ Playing => WithinBounds(dt)
    /\ ticks' = ticks + 1
    /\ jump_clock' = AdvanceClock(jump_clock, dt)
    /\ level_log' = AdvanceLevelLog(level_log, dt)
    /\ LET j   == UpdateJumpTimers(jump_active, jump_timer, jump_cooldown_timer, dt)
           obs == UpdateObstacles(obstacle_coords, current_y_loop)
           fx0 == ServeBefore(CurrentFx, DtTime(dt))
           fx  == [ fx0 EXCEPT !.queue = Age(fx0.queue, DtTime(dt)) ]
       IN  /\ jump_active' = j.jump_active
           /\ jump_timer' = j.jump_timer
           /\ jump_cooldown_timer' = j.jump_cooldown_timer
           /\ obstacle_coords' = obs
           /\ UNCHANGED << paused, current_y_loop, current_speed_x, tiles_coordinates,
                           allow_collisions, level, difficulty, speed_y_base,
                           speed_x_base, music_var, last_spawn >>
           /\ IF Playing
              THEN LET speed_y == (speed_y_base * WINDOW_HEIGHT) \div SPEED_DIVISOR
                       offy    == current_offset_y + speed_y * dt
                       tk      == [ playing |-> TRUE, row0 |-> current_y_loop,
                                    total |-> offy, crossings |-> 0,
                                    gens |-> 0, spawns |-> 0, colors |-> 0,
                                    game_over |-> FALSE,
                                    off_track |-> FALSE, obstacle_hit |-> FALSE ]
                   IN  /\ current_offset_y' = offy
                       /\ IF WhileTest(offy, 0)
                          THEN /\ pc' = "loop"
                               /\ time_factor' = dt
                               /\ tick' = tk
                               /\ SetFx(fx)
                               /\ UNCHANGED << current_offset_x, state_game_over,
                                               state_game_has_started, menu_visible,
                                               high_score, hs_file, last_game_over >>
                          ELSE AfterLoop(dt, current_y_loop, offy, tiles_coordinates, obs,
                                         level, allow_collisions, j.jump_active, tk, fx)
              ELSE /\ tick' = [ ZeroTick EXCEPT !.row0 = current_y_loop ]
                   /\ SetFx(ServeDue(fx))
                   /\ UNCHANGED << pc, time_factor, current_offset_y, current_offset_x, state_game_over,
                                   state_game_has_started, menu_visible, high_score,
                                   hs_file, last_game_over >>

\* One iteration of the while loop, lines 841-855; when the loop test then
\* fails, the rest of the handler (lines 857-863) runs in the same step.
CrossRow(turns) ==
    /\ pc = "loop"
    /\ UNCHANGED projection
    /\ LET offy  == current_offset_y - spacing_y
           row   == current_y_loop + 1
           lv    == UpdateLevel(row, level, difficulty, speed_y_base, speed_x_base)
           allow == IF ~allow_collisions /\ row >= COLLISION_START_LOOP
                    THEN TRUE ELSE allow_collisions
           fx    == IF lv.changed THEN OnLevelChanged(CurrentFx, lv.level) ELSE CurrentFx
       IN  \E tiles \in GenerateTiles(tiles_coordinates, row, turns) :
           \E sp \in MaybeSpawnObstacle(tiles, row, lv.level, obstacle_coords) :
             LET tk == [ tick EXCEPT !.crossings = @ + 1, !.gens = @ + 1,
                                     !.spawns = @ + 1, !.colors = @ + 1 ]
             IN
               /\ current_offset_y' = offy
               /\ current_y_loop' = row
               /\ level' = lv.level
               /\ speed_y_base' = lv.speed_y_base
               /\ speed_x_base' = lv.speed_x_base
               /\ tiles_coordinates' = tiles
               /\ obstacle_coords' = sp.obs
               /\ last_spawn' = [ kind |-> sp.kind, x |-> sp.x, y |-> sp.y ]
               /\ allow_collisions' = allow
               /\ level_log' = IF lv.changed
                                THEN [ fired |-> Append(level_log.fired, lv.level),
                                       band |-> lv.level, elapsed |-> 0 ]
                                ELSE level_log
               /\ UNCHANGED << paused, current_speed_x, difficulty, jump_active, jump_timer,
                               jump_cooldown_timer, music_var, ticks, jump_clock >>
               /\ IF WhileTest(offy, tk.crossings)
                  THEN /\ pc' = "loop"
                       /\ tick' = tk
                       /\ SetFx(fx)
                       /\ UNCHANGED << time_factor, current_offset_x, state_game_over,
                                       state_game_has_started, menu_visible,
                                       high_score, hs_file, last_game_over >>
                  ELSE AfterLoop(time_factor, row, offy, tiles, sp.obs, lv.level, allow,
                                 jump_active, tk, fx)

-----------------------------------------------------------------------------
(* Input handlers                                                          *)

\* A toggle that is refused in the menu only.
TogglePauseAfterGameOver(started, over, p) ==
    IF ~started /\ ~over THEN p ELSE ~p

\* A toggle without the guard of lines 710-711.
TogglePauseUnguarded(started, over, p) == ~p

\* _toggle_pause, lines 710-713: the new value of self.paused.
TogglePause(started, over, p) ==
    IF ~started \/ over THEN p ELSE ~p

\* A jump request that ignores the cooldown.
TryJumpNoCooldown(started, over, p, jact, jt, jc) ==
    IF ~started \/ over \/ p \/ jact THEN
        [ jump_active |-> jact, jump_timer |-> jt, jump_cooldown_timer |-> jc ]
    ELSE
        [ jump_active |-> TRUE, jump_timer |-> JUMP_DURATION,
          jump_cooldown_timer |-> JUMP_DURATION + JUMP_COOLDOWN ]

\* A jump whose cooldown is counted from its end.
TryJumpCooldownAfter(started, over, p, jact, jt, jc) ==
    IF ~started \/ over \/ p \/ jact \/ jc > 0 THEN
        [ jump_active |-> jact, jump_timer |-> jt, jump_cooldown_timer |-> jc ]
    ELSE
        [ jump_active |-> TRUE, jump_timer |-> JUMP_DURATION,
          jump_cooldown_timer |-> JUMP_COOLDOWN ]

\* _try_jump, lines 647-657: the jump state after a request.
TryJump(started, over, p, jact, jt, jc) ==
    IF ~started \/ over \/ p THEN
        [ jump_active |-> jact, jump_timer |-> jt, jump_cooldown_timer |-> jc ]
    ELSE IF jact THEN
        [ jump_active |-> jact, jump_timer |-> jt, jump_cooldown_timer |-> jc ]
    ELSE IF jc > 0 THEN
        [ jump_active |-> jact, jump_timer |-> jt, jump_cooldown_timer |-> jc ]
    ELSE
        [ jump_active |-> TRUE, jump_timer |-> JUMP_DURATION,
          jump_cooldown_timer |-> JUMP_DURATION + JUMP_COOLDOWN ]

AllButProjection ==
    << state_game_over, state_game_has_started, paused, menu_visible,
       current_offset_y, current_y_loop, current_speed_x, current_offset_x,
       tiles_coordinates, obstacle_coords, allow_collisions, level,
       difficulty, speed_y_base, speed_x_base, jump_active, jump_timer,
       jump_cooldown_timer, high_score, hs_file, music_var,
       pc, time_factor, ticks, tick, last_spawn, last_game_over, jump_clock,
       level_banner, after_queue, audio, level_log >>

AllButFile ==
    << state_game_over, state_game_has_started, paused, menu_visible,
       current_offset_y, current_y_loop, current_speed_x, current_offset_x,
       tiles_coordinates, obstacle_coords, allow_collisions, level,
       difficulty, speed_y_base, speed_x_base, jump_active, jump_timer,
       jump_cooldown_timer, high_score, music_var,
       pc, time_factor, ticks, tick, last_spawn, last_game_over, jump_clock,
       level_banner, after_queue, audio, level_log, projection >>

AllButHighScore ==
    << state_game_over, state_game_has_started, paused, menu_visible,
       current_offset_y, current_y_loop, current_speed_x, current_offset_x,
       tiles_coordinates, obstacle_coords, allow_collisions, level,
       difficulty, speed_y_base, speed_x_base, jump_active, jump_timer,
       jump_cooldown_timer, hs_file, music_var,
       pc, time_factor, ticks, tick, last_spawn, last_game_over, jump_clock,
       level_banner, after_queue, audio, level_log, projection >>

\* _on_key_down with keysym Left (dir = 1) or Right (dir = -1).
KeyDownArrow(dir) ==
    /\ pc = "idle"
    /\ current_speed_x' = dir * speed_x_base
    /\ UNCHANGED << state_game_over, state_game_has_started, paused, menu_visible,
                    current_offset_y, current_y_loop, current_offset_x,
                    tiles_coordinates, obstacle_coords, allow_collisions, level,
                    difficulty, speed_y_base, speed_x_base, jump_active, jump_timer,
                    jump_cooldown_timer, high_score, hs_file, music_var,
                    pc, time_factor, ticks, tick, last_spawn, last_game_over, jump_clock >>
    /\ UNCHANGED Effects

\* _on_key_up with keysym Left or Right.
KeyUpArrow ==
    /\ pc = "idle"
    /\ current_speed_x' = 0
    /\ UNCHANGED << state_game_over, state_game_has_started, paused, menu_visible,
                    current_offset_y, current_y_loop, current_offset_x,
                    tiles_coordinates, obstacle_coords, allow_collisions, level,
                    difficulty, speed_y_base, speed_x_base, jump_active, jump_timer,
                    jump_cooldown_timer, high_score, hs_file, music_var,
                    pc, time_factor, ticks, tick, last_spawn, last_game_over, jump_clock >>
    /\ UNCHANGED Effects

\* _on_mouse_down: left is event.x < WINDOW_WIDTH / 2.
MouseDown(left) ==
    /\ pc = "idle"
    /\ current_speed_x' = IF ~state_game_over /\ state_game_has_started /\ ~paused
                          THEN (IF left THEN speed_x_base ELSE -speed_x_base)
                          ELSE current_speed_x
    /\ UNCHANGED << state_game_over, state_game_has_started, paused, menu_visible,
                    current_offset_y, current_y_loop, current_offset_x,
                    tiles_coordinates, obstacle_coords, allow_collisions, level,
                    difficulty, speed_y_base, speed_x_base, jump_active, jump_timer,
                    jump_cooldown_timer, high_score, hs_file, music_var,
                    pc, time_factor, ticks, tick, last_spawn, last_game_over, jump_clock >>
    /\ UNCHANGED Effects

\* _on_mouse_up.
MouseUp ==
    /\ pc = "idle"
    /\ current_speed_x' = 0
    /\ UNCHANGED << state_game_over, state_game_has_started, paused, menu_visible,
                    current_offset_y, current_y_loop, current_offset_x,
                    tiles_coordinates, obstacle_coords, allow_collisions, level,
                    difficulty, speed_y_base, speed_x_base, jump_active, jump_timer,
                    jump_cooldown_timer, high_score, hs_file, music_var,
                    pc, time_factor, ticks, tick, last_spawn, last_game_over, jump_clock >>
    /\ UNCHANGED Effects

\* _on_key_down with keysym p or P: _toggle_pause (the pause banner is
\* presentation only).
KeyPause ==
    /\ pc = "idle"
    /\ paused' = TogglePause(state_game_has_started, state_game_over, paused)
    /\ UNCHANGED << state_game_over, state_game_has_started, menu_visible,
                    current_offset_y, current_y_loop, current_speed_x, current_offset_x,
                    tiles_coordinates, obstacle_coords, allow_collisions, level,
                    difficulty, speed_y_base, speed_x_base, jump_active, jump_timer,
                    jump_cooldown_timer, high_score, hs_file, music_var,
                    pc, time_factor, ticks, tick, last_spawn, last_game_over, jump_clock >>
    /\ UNCHANGED Effects

\* _on_key_down with keysym space: _try_jump.
KeySpace ==
    /\ pc = "idle"
    /\ LET j == TryJump(state_game_has_started, state_game_over, paused,
                        jump_active, jump_timer, jump_cooldown_timer)
       IN  /\ jump_active' = j.jump_active
           /\ jump_timer' = j.jump_timer
           /\ jump_cooldown_timer' = j.jump_cooldown_timer
    /\ UNCHANGED << state_game_over, state_game_has_started, paused, menu_visible,
                    current_offset_y, current_y_loop, current_speed_x, current_offset_x,
                    tiles_coordinates, obstacle_coords, allow_collisions, level,
                    difficulty, speed_y_base, speed_x_base,
                    high_score, hs_file, music_var,
                    pc, time_factor, ticks, tick, last_spawn, last_game_over >>
    /\ jump_clock' = IF ~jump_active /\ jump_active'
                      THEN [ started |-> TRUE, elapsed |-> 0,
                             starts |-> jump_clock.starts + 1 ]
                      ELSE jump_clock
    /\ UNCHANGED Effects

-----------------------------------------------------------------------------
(* Menu handlers (the menu widgets can be used only while the menu shows)  *)

\* A difficulty radio button: sets diff_var, then _on_difficulty_changed.
SelectDifficulty(name) ==
    /\ pc = "idle"
    /\ menu_visible
    /\ difficulty' = name
    /\ speed_y_base' = DIFFICULTIES[name].speed
    /\ speed_x_base' = DIFFICULTIES[name].speed_x
    /\ UNCHANGED << state_game_over, state_game_has_started, paused, menu_visible,
                    current_offset_y, current_y_loop, current_speed_x, current_offset_x,
                    tiles_coordinates, obstacle_coords, allow_collisions, level,
                    jump_active, jump_timer, jump_cooldown_timer,
                    high_score, hs_file, music_var,
                    pc, time_factor, ticks, tick, last_spawn, last_game_over, jump_clock >>
    /\ UNCHANGED Effects

\* The music OptionMenu: sets music_var only.
SelectMusic(name) ==
    /\ pc = "idle"
    /\ menu_visible
    /\ music_var' = name
    /\ UNCHANGED << state_game_over, state_game_has_started, paused, menu_visible,
                    current_offset_y, current_y_loop, current_speed_x, current_offset_x,
                    tiles_coordinates, obstacle_coords, allow_collisions, level,
                    difficulty, speed_y_base, speed_x_base,
                    jump_active, jump_timer, jump_cooldown_timer,
                    high_score, hs_file,
                    pc, time_factor, ticks, tick, last_spawn, last_game_over, jump_clock >>
    /\ UNCHANGED Effects

\* reset_game, lines 733-765: the scalar fields it assigns.
ResetGame ==
    [ current_offset_y |-> 0, current_y_loop |-> 0, current_speed_x |-> 0,
      current_offset_x |-> 0, allow_collisions |-> FALSE, paused |-> FALSE,
      level |-> 0, jump_active |-> FALSE, jump_timer |-> 0,
      jump_cooldown_timer |-> 0, state_game_over |-> FALSE ]

\* A reset that leaves the pool as it is.
ResetObstaclesKept(obs) == obs

\* reset_game, lines 759-760: every obstacle returns to the pool.
ResetObstacles(obs) == [ i \in 1 .. MAX_OBSTACLES |-> Sentinel ]

\* on_menu_button_pressed: _on_difficulty_changed, reset_game (which ends in
\* _reset_tiles and so in a generation and a spawn attempt at level 0), then
\* the switch to gameplay: the menu music stops and the game music starts.
\* Nothing here touches the banner or the pending callbacks.
MenuButton(turns) ==
    /\ pc = "idle"
    /\ menu_visible
    /\ speed_y_base' = DIFFICULTIES[difficulty].speed
    /\ speed_x_base' = DIFFICULTIES[difficulty].speed_x
    /\ LET r == ResetGame
       IN  /\ current_offset_y' = r.current_offset_y
           /\ current_y_loop' = r.current_y_loop
           /\ current_speed_x' = r.current_speed_x
           /\ current_offset_x' = r.current_offset_x
           /\ allow_collisions' = r.allow_collisions
           /\ paused' = r.paused
           /\ level' = r.level
           /\ jump_active' = r.jump_active
           /\ jump_timer' = r.jump_timer
           /\ jump_cooldown_timer' = r.jump_cooldown_timer
           /\ state_game_over' = r.state_game_over
           /\ obstacle_coords' = ResetObstacles(obstacle_coords)
           /\ tiles_coordinates' \in GenerateTiles(InitialTrack, r.current_y_loop, turns)
           /\ \E sp \in MaybeSpawnObstacle(tiles_coordinates', r.current_y_loop, r.level,
                                            obstacle_coords') :
                 last_spawn' = [ kind |-> sp.kind, x |-> sp.x, y |-> sp.y ]
    /\ state_game_has_started' = TRUE
    /\ menu_visible' = FALSE
    /\ tick' = ZeroTick
    /\ last_game_over' = NoGameOver
    /\ jump_clock' = NoJump
    /\ audio' = play_game_music(stop_menu_music(audio))
    /\ level_log' = [ level_log EXCEPT !.fired = << >> ]
    /\ UNCHANGED << difficulty, high_score, hs_file, music_var, pc, time_factor, ticks,
                    level_banner, after_queue, projection >>

\* _on_toggle_sound_clicked, lines 251-261: the Sound button of the menu.
ToggleSound ==
    /\ pc = "idle"
    /\ menu_visible
    /\ LET a == toggle_sound(audio)
       IN  audio' = IF ~a.sound_enabled THEN a
                    ELSE IF ~state_game_has_started /\ ~state_game_over
                    THEN play_menu_music(a)
                    ELSE IF state_game_has_started /\ ~state_game_over
                    THEN play_game_music(a)
                    ELSE a
    /\ UNCHANGED << state_game_over, state_game_has_started, paused, menu_visible,
                    current_offset_y, current_y_loop, current_speed_x, current_offset_x,
                    tiles_coordinates, obstacle_coords, allow_collisions, level,
                    difficulty, speed_y_base, speed_x_base,
                    jump_active, jump_timer, jump_cooldown_timer,
                    high_score, hs_file, music_var,
                    pc, time_factor, ticks, tick, last_spawn, last_game_over, jump_clock,
                    level_banner, after_queue, level_log, projection >>

-----------------------------------------------------------------------------
(* Specification                                                           *)

Next ==
    \/ \E dt \in DtSet : Tick(dt)
    \/ CrossRow(TurnRows)
    \/ \E dir \in {1, -1} : KeyDownArrow(dir)
    \/ KeyUpArrow
    \/ \E left \in BOOLEAN : MouseDown(left)
    \/ MouseUp
    \/ KeyPause
    \/ KeySpace
    \/ \E name \in DifficultyNames : SelectDifficulty(name)
    \/ \E name \in MusicNames : SelectMusic(name)
    \/ MenuButton(TurnRows)

Spec == Init /\ [][Next]_vars

\* The long run: the same handlers with frames long enough to reach level 1,
\* where obstacles spawn, and the inputs that matter there.
NextRun ==
    \/ \E dt \in DtSetRun : Tick(dt)
    \/ CrossRow(TurnRows)
    \/ \E dir \in {1, -1} : KeyDownArrow(dir)
    \/ KeyUpArrow
    \/ KeySpace
    \/ MenuButton(TurnRows)

SpecRun == Init /\ [][NextRun]_vars

\* The generator at work: the frame handler and the start button, with a
\* random stream that may turn anywhere in GenTurnRows.
InitGen == InitFrom(GenTurnRows)

NextGen ==
    \/ \E dt \in DtSetGen : Tick(dt)
    \/ CrossRow(GenTurnRows)
    \/ MenuButton(GenTurnRows)

SpecGen == InitGen /\ [][NextGen]_vars

\* The obstacle specification: a run into level 1 with the path free to turn
\* just ahead of the ship, short frames after the long one, and the jump key.
InitHit == InitFrom(HitTurnRows)

NextHit ==
    \/ \E dt \in DtSetHit : Tick(dt)
    \/ CrossRow(HitTurnRows)
    \/ KeySpace
    \/ MenuButton(HitTurnRows)

SpecHit == InitHit /\ [][NextHit]_vars

\* The jump specification: frames of positive length in every phase, the jump
\* and pause keys, steering and the start button.
NextJump ==
    \/ \E dt \in DtSetJump : Tick(dt)
    \/ CrossRow(TurnRows)
    \/ \E dir \in {1, -1} : KeyDownArrow(dir)
    \/ KeyPause
    \/ KeySpace
    \/ MenuButton(TurnRows)

SpecJump == Init /\ [][NextJump]_vars

\* The frame handler is rescheduled by Tk after every frame (after(), line
\* 866), so frames keep occurring and a started frame runs to its end.
FairSpecJump ==
    /\ SpecJump
    /\ WF_vars(\E dt \in DtSetJump : Tick(dt))
    /\ WF_vars(CrossRow(TurnRows))

\* The level specification: runs into level 1 at each difficulty.
NextLevel ==
    \/ \E dt \in DtSetLevel : Tick(dt)
    \/ CrossRow(TurnRows)
    \/ \E name \in DifficultyNames : SelectDifficulty(name)
    \/ MenuButton(TurnRows)

SpecLevel == Init /\ [][NextLevel]_vars

\* The audio specification: runs, game overs and restarts with the Sound
\* button of the menu.
NextAudio ==
    \/ \E dt \in DtSetAudio : Tick(dt)
    \/ CrossRow(TurnRows)
    \/ \E dir \in {1, -1} : KeyDownArrow(dir)
    \/ KeyPause
    \/ ToggleSound
    \/ MenuButton(TurnRows)

SpecAudio == Init /\ [][NextAudio]_vars

\* The steering specification: arrow keys pressed and released in a run that
\* passes row 100.
NextSteer ==
    \/ \E dt \in DtSetSteer : Tick(dt)
    \/ CrossRow(TurnRows)
    \/ \E dir \in {1, -1} : KeyDownArrow(dir)
    \/ KeyUpArrow
    \/ MenuButton(TurnRows)

SpecSteer == Init /\ [][NextSteer]_vars

\* A call of save_high_score(value) with any outcome of the write.
SaveScore ==
    /\ pc = "idle"
    /\ \E v \in ScoreValues, out \in WriteOutcomes :
          hs_file' = save_high_score(v, hs_file, out)
    /\ UNCHANGED AllButFile

\* A call of load_high_score() as at start-up (__init__, line 88).
LoadScore ==
    /\ pc = "idle"
    /\ high_score' = load_high_score(hs_file)
    /\ UNCHANGED AllButHighScore

\* The high-score specification: the two functions of src/highscore.py
\* applied to a file that starts in any of ScoreFiles.
InitScore == InitWith(TurnRows, ScoreFiles)

NextScore ==
    \/ SaveScore
    \/ LoadScore

SpecScore == InitScore /\ [][NextScore]_vars

\* A call of transform_perspective(x, y), as the drawing code makes them.
Project(x, y) ==
    /\ pc = "idle"
    /\ projection' = transform_perspective(x, y)
    /\ UNCHANGED AllButProjection

\* The projection specification: the function applied to a grid of world
\* points on both sides of the horizon and of the vanishing point.
NextProject == \E x \in ProjectXs, y \in ProjectYs : Project(x, y)

SpecProject == Init /\ [][NextProject]_vars

-----------------------------------------------------------------------------
(* Properties                                                              *)

AllButPaused ==
    << state_game_over, state_game_has_started, menu_visible,
       current_offset_y, current_y_loop, current_speed_x, current_offset_x,
       tiles_coordinates, obstacle_coords, allow_collisions, level,
       difficulty, speed_y_base, speed_x_base, jump_active, jump_timer,
       jump_cooldown_timer, high_score, hs_file, music_var,
       pc, time_factor, ticks, tick, last_spawn, last_game_over, jump_clock,
       level_banner, after_queue, audio, level_log, projection >>

\* C1: a pause toggle leads from Playing to Paused and from Paused to
\* Playing, changes nothing but the paused flag, and from Menu or GameOver
\* changes nothing at all.
C1_PauseToggle ==
    [][ KeyPause =>
          /\ (Phase = "Playing" => Phase' = "Paused")
          /\ (Phase = "Paused" => Phase' = "Playing")
          /\ (Phase \in {"Menu", "GameOver"} => UNCHANGED vars)
          /\ UNCHANGED AllButPaused ]_vars

\* The game has been paused during a run that has already scrolled.
C1_Witness == Phase = "Paused" /\ current_y_loop > 0

\* C2: a tick taken in Menu, Paused or GameOver leaves the scroll state, the
\* tiles, the level, the speeds, allow_collisions and the high score alone,
\* activates no obstacle slot, does not enter the while loop and does not
\* change the phase; the while loop runs only in Playing.
C2_FrozenOutsidePlaying ==
    [][ /\ (ticks' # ticks /\ Phase # "Playing") =>
              /\ UNCHANGED << current_y_loop, current_offset_y, current_offset_x,
                              tiles_coordinates, level, speed_y_base, speed_x_base,
                              allow_collisions, high_score >>
              /\ \A i \in 1 .. Len(obstacle_coords) :
                    obstacle_coords[i] = Sentinel => obstacle_coords'[i] = Sentinel
              /\ pc' = "idle"
              /\ Phase' = Phase
        /\ (pc' = "loop" => Phase' = "Playing") ]_vars

\* A tick has run while the game was paused in mid-row.
C2_Witness ==
    /\ Phase = "Paused" /\ pc = "idle" /\ ~tick.playing /\ ticks > 1
    /\ current_y_loop > 0 /\ current_offset_y > 0

AllInactive(obs) == \A i \in 1 .. Len(obs) : obs[i] = Sentinel

\* C3: the start/restart action leaves the game Playing with the scroll
\* state, level, jump state and collisions flag reset, every obstacle slot
\* inactive, the speeds at the selected difficulty's base values and the
\* track beginning with lane 0, rows 5..14; the high score, the selected
\* difficulty and the selected music are unchanged.
C3_StartResets ==
    [][ (~state_game_has_started /\ state_game_has_started') =>
          /\ Phase \in {"Menu", "GameOver"}
          /\ Phase' = "Playing"
          /\ current_y_loop' = 0
          /\ current_offset_y' = 0
          /\ current_offset_x' = 0
          /\ current_speed_x' = 0
          /\ level' = 0
          /\ allow_collisions' = FALSE
          /\ paused' = FALSE
          /\ jump_active' = FALSE /\ jump_timer' = 0 /\ jump_cooldown_timer' = 0
          /\ Len(obstacle_coords') = MAX_OBSTACLES /\ AllInactive(obstacle_coords')
          /\ speed_y_base' = DIFFICULTIES[difficulty'].speed
          /\ speed_x_base' = DIFFICULTIES[difficulty'].speed_x
          /\ Len(tiles_coordinates') >= 10
          /\ \A i \in 1 .. 10 : tiles_coordinates'[i] = << 0, 4 + i >>
          /\ UNCHANGED << high_score, difficulty, music_var >> ]_vars

\* A run has been restarted after a game over at level 1.
C3_Witness ==
    /\ Phase = "Playing" /\ pc = "idle" /\ current_y_loop = 0 /\ tick = ZeroTick
    /\ high_score >= LEVEL_ROWS

\* C4: on every transition to GameOver the high score becomes the larger of
\* the previous high score and current_y_loop; save_high_score is called,
\* with that row, exactly when the row is strictly greater than the previous
\* high score; and no step ever lowers the high score.
C4_HighScore ==
    [][ /\ (~state_game_over /\ state_game_over') =>
              /\ high_score' = Max(high_score, current_y_loop')
              /\ last_game_over'.saved <=> (current_y_loop' > high_score)
              /\ current_y_loop' > high_score =>
                    /\ last_game_over'.save_arg = current_y_loop'
                    /\ hs_file' \in { hs_file, IntFile(current_y_loop'), TextFile(<< >>) }
              /\ ~(current_y_loop' > high_score) => hs_file' = hs_file
        /\ high_score' >= high_score ]_vars

\* A game over has beaten a positive stored high score and saved the new one.
C4_Witness ==
    /\ Phase = "GameOver" /\ last_game_over.happened
    /\ last_game_over.prev_high > 0
    /\ last_game_over.saved /\ last_game_over.save_arg = current_y_loop
    /\ high_score = current_y_loop

\* C5: when a Playing tick ends, with offset_y plus the tick's advance equal
\* to k * row_height + r, 0 <= r < row_height, current_y_loop has grown by
\* exactly k and the level/colour update, the track generation and the spawn
\* attempt have each run exactly k times.
C5_OncePerCrossing ==
    (pc = "idle" /\ tick.playing) =>
        LET k == tick.total \div spacing_y
        IN  /\ current_y_loop = tick.row0 + k
            /\ tick.crossings = k
            /\ tick.colors = k
            /\ tick.gens = k
            /\ tick.spawns = k

\* A tick has crossed exactly three row boundaries.
C5_Witness ==
    /\ pc = "idle" /\ tick.playing
    /\ tick.total \div spacing_y = 3 /\ tick.crossings = 3

\* C6: at the end of every tick, in every phase, 0 <= offset_y < row_height.
C6_OffsetInRow ==
    pc = "idle" => (0 <= current_offset_y /\ current_offset_y < spacing_y)

\* A tick that crossed several rows has ended in mid-row.
C6_Witness ==
    /\ pc = "idle" /\ tick.playing /\ tick.crossings >= 2
    /\ current_offset_y > 0

ActiveObstacles(obs) == { i \in 1 .. Len(obs) : obs[i] # Sentinel }

\* C7: the obstacle pool always has exactly MAX_OBSTACLES slots, so at most
\* MAX_OBSTACLES obstacles are active.
C7_PoolSize ==
    /\ Len(obstacle_coords) = MAX_OBSTACLES
    /\ Cardinality(ActiveObstacles(obstacle_coords)) <= MAX_OBSTACLES

\* Every slot of the pool is active.
C7_Witness == Cardinality(ActiveObstacles(obstacle_coords)) = MAX_OBSTACLES

TileLanes(tiles, y) == { tiles[i][1] : i \in { j \in 1 .. Len(tiles) : tiles[j][2] = y } }

\* C8: when the spawn logic has just placed an obstacle at (lane, row), the
\* level is at least 1, row >= current_y_loop + 2, the tile list has tiles
\* in at least two lanes of that row, and (lane, row) is one of them.
C8_SpawnPlacement ==
    last_spawn.kind = "placed" =>
        /\ level >= 1
        /\ last_spawn.y >= current_y_loop + 2
        /\ Cardinality(TileLanes(tiles_coordinates, last_spawn.y)) >= 2
        /\ last_spawn.x \in TileLanes(tiles_coordinates, last_spawn.y)
        /\ \E i \in 1 .. Len(obstacle_coords) :
              obstacle_coords[i] = << last_spawn.x, last_spawn.y >>

\* An obstacle has just been placed.
C8_Witness == pc = "loop" /\ last_spawn.kind = "placed"

\* C9: every row at or ahead of current_y_loop that holds an active obstacle
\* also holds a tile that no active obstacle occupies.
C9_EscapePath ==
    \A i \in ActiveObstacles(obstacle_coords) :
        obstacle_coords[i][2] >= current_y_loop =>
            \E t \in 1 .. Len(tiles_coordinates) :
                /\ tiles_coordinates[t][2] = obstacle_coords[i][2]
                /\ \A j \in ActiveObstacles(obstacle_coords) :
                      obstacle_coords[j] # tiles_coordinates[t]

PoolFull(obs) == \A i \in 1 .. Len(obs) : obs[i] # Sentinel

\* C10: an iteration of the while loop entered with no free slot in the pool
\* changes no obstacle coordinate and no pool size, and still completes: the
\* row is counted, the spawn attempt is counted, and the handler goes on to
\* its next iteration or to its end.
C10_DropWhenFull ==
    [][ (pc = "loop" /\ PoolFull(obstacle_coords)) =>
          /\ obstacle_coords' = obstacle_coords
          /\ current_y_loop' = current_y_loop + 1
          /\ tick'.spawns = tick.spawns + 1
          /\ tick'.crossings = tick.crossings + 1
          /\ pc' \in {"loop", "idle"} ]_vars

\* A spawn attempt has just been dropped on a full pool.
C10_Witness == last_spawn.kind = "dropped" /\ PoolFull(obstacle_coords)

TileIndexes == 1 .. Len(tiles_coordinates)

\* C11: every tile of the track has its lane in [start_index, end_index],
\* that is in [-3, 4], whatever the draws.
C11_LaneRange ==
    /\ start_index = -3 /\ end_index = 4
    /\ \A i \in TileIndexes :
          start_index <= tiles_coordinates[i][1] /\ tiles_coordinates[i][1] <= end_index

\* The track has reached the right boundary and been forced back.
C11_Witness ==
    \E i, j \in TileIndexes :
        /\ i < j
        /\ tiles_coordinates[i][1] = end_index
        /\ tiles_coordinates[j][1] = end_index - 1

\* C12: every tile lies between the leftmost and the rightmost drawn vertical
\* line: start_index <= lane and lane + 1 <= end_index.
C12_InLaneBand ==
    \A i \in TileIndexes :
        start_index <= tiles_coordinates[i][1] /\ tiles_coordinates[i][1] + 1 <= end_index

Adjacent(a, b) ==
    \/ a[2] = b[2] /\ (b[1] = a[1] + 1 \/ b[1] = a[1] - 1)
    \/ a[1] = b[1] /\ b[2] = a[2] + 1

\* C13: each tile but the first is adjacent to its predecessor (same row and
\* a neighbouring lane, or same lane and the next row), so every live row
\* above the lowest shares a lane with the row before it.
C13_Connected ==
    /\ \A i \in TileIndexes : i > 1 => Adjacent(tiles_coordinates[i - 1], tiles_coordinates[i])
    /\ \A i \in TileIndexes :
          tiles_coordinates[i][2] > tiles_coordinates[1][2] =>
              \E j \in TileIndexes :
                  /\ tiles_coordinates[j][2] = tiles_coordinates[i][2]
                  /\ << tiles_coordinates[j][1], tiles_coordinates[j][2] - 1 >>
                        \in { tiles_coordinates[k] : k \in TileIndexes }

\* A live track with a turn in it, after evictions and several generations.
C13_Witness ==
    /\ tick.gens >= GenRowLo
    /\ tiles_coordinates[1][2] = current_y_loop
    /\ \E i \in TileIndexes : i > 1 /\ tiles_coordinates[i][1] # tiles_coordinates[i - 1][1]

RowHasTile(r) == \E i \in TileIndexes : tiles_coordinates[i][2] = r

\* A run has been started: the state follows a start/restart or a crossing.
RunStarted == state_game_has_started \/ state_game_over

\* C14 as stated: after start/restart and after every crossing, every row of
\* [current_y_loop, current_y_loop + H_NB_LINES) has a tile and no tile is
\* below current_y_loop.
C14_WindowCovered ==
    RunStarted =>
    /\ \A r \in current_y_loop .. (current_y_loop + H_NB_LINES - 1) : RowHasTile(r)
    /\ \A i \in TileIndexes : tiles_coordinates[i][2] >= current_y_loop

\* C14 amended: after start/restart and after every crossing, every row of
\* the window from the first track row (FIRST_TILE_ROW) on has a tile, and no
\* tile is below current_y_loop.
C14_WindowCoveredFromFirstRow ==
    RunStarted =>
    /\ \A r \in Max(current_y_loop, FIRST_TILE_ROW) .. (current_y_loop + H_NB_LINES - 1) :
          RowHasTile(r)
    /\ \A i \in TileIndexes : tiles_coordinates[i][2] >= current_y_loop

\* A crossing inside the turning rows has just evicted and generated.
C14_Witness ==
    /\ pc = "loop" /\ tick.gens > 0
    /\ current_y_loop > GenRowLo
    /\ \E i \in TileIndexes : tiles_coordinates[i][1] # 0

\* The ship's vertices relative to the centre line of the window, which is
\* also the middle of lane 0 at offset_x = 0: x in 1/100000, y in 1/1000.
ShipVertexOffsets ==
    LET half == (SHIP_WIDTH * WINDOW_WIDTH * SPEED_DIVISOR) \div 2
    IN  { << -half, SHIP_BASE_Y * WINDOW_HEIGHT >>,
          << 0, (SHIP_BASE_Y + SHIP_HEIGHT) * WINDOW_HEIGHT >>,
          << half, SHIP_BASE_Y * WINDOW_HEIGHT >> }

\* The vertex v lies in the closed box from (lane, row) to (lane + 1, row + 1)
\* of the scrolled world: lanes are spacing_x wide and centred for lane 0 at
\* offset_x = 0, rows are spacing_y high and counted from current_y_loop.
InTileBox(v, lane, row) ==
    /\ (2 * lane - 1) * spacing_x + 2 * current_offset_x <= 2 * v[1]
    /\ 2 * v[1] <= (2 * lane + 1) * spacing_x + 2 * current_offset_x
    /\ (row - current_y_loop) * spacing_y - current_offset_y <= v[2]
    /\ v[2] <= (row - current_y_loop + 1) * spacing_y - current_offset_y

NearRows == (current_y_loop - 1) .. (current_y_loop + 2)

\* The ship is unsupported: no tile of the near rows holds one of its vertices.
ShipOffTrack ==
    ~ \E i \in TileIndexes :
          /\ tiles_coordinates[i][2] \in NearRows
          /\ \E v \in ShipVertexOffsets :
                InTileBox(v, tiles_coordinates[i][1], tiles_coordinates[i][2])

\* C15: no step enters GameOver while current_y_loop < COLLISION_START_LOOP,
\* and at the end of every tick allow_collisions holds exactly when
\* current_y_loop >= COLLISION_START_LOOP.
C15_GracePeriod ==
    [][ /\ (~state_game_over /\ state_game_over') =>
              current_y_loop' >= COLLISION_START_LOOP
        /\ pc' = "idle" =>
              (allow_collisions' <=> current_y_loop' >= COLLISION_START_LOOP) ]_vars

\* A Playing tick has ended below the threshold with the ship over no tile,
\* and the run goes on.
C15_Witness ==
    /\ pc = "idle" /\ tick.playing /\ Phase = "Playing"
    /\ current_y_loop > 0 /\ current_y_loop < COLLISION_START_LOOP
    /\ ShipOffTrack

\* C16: at the end of a Playing tick with collisions enabled, the off-track
\* check has reported a collision exactly when no tile of rows
\* current_y_loop - 1 .. current_y_loop + 2 holds a ship vertex in its closed
\* box; so it reports none when one tile holds all three vertices.
C16_OffTrackCheck ==
    (pc = "idle" /\ tick.playing /\ current_y_loop >= COLLISION_START_LOOP) =>
        /\ tick.off_track <=> ShipOffTrack
        /\ (\E i \in TileIndexes :
               /\ tiles_coordinates[i][2] \in NearRows
               /\ \A v \in ShipVertexOffsets :
                     InTileBox(v, tiles_coordinates[i][1], tiles_coordinates[i][2]))
           => ~tick.off_track

\* With collisions enabled the ship has drifted until only its right vertex,
\* on the edge of a tile's box, still supports it.
C16_Witness ==
    /\ pc = "idle" /\ tick.playing /\ current_y_loop >= COLLISION_START_LOOP
    /\ ~tick.off_track /\ current_offset_x # 0

\* Some active obstacle of the near rows holds a ship vertex in its box.
ObstacleUnderShip ==
    \E i \in ActiveObstacles(obstacle_coords) :
        /\ obstacle_coords[i][2] \in NearRows
        /\ \E v \in ShipVertexOffsets :
              InTileBox(v, obstacle_coords[i][1], obstacle_coords[i][2])

\* C17: at the end of a Playing tick whose off-track check passed, the
\* obstacle check has reported a collision exactly when level >= 1, no jump is
\* active and some active obstacle of rows current_y_loop - 1 ..
\* current_y_loop + 2 holds a ship vertex; so a tick that ends with a jump
\* active goes to GameOver only by leaving the track.
C17_ObstacleCheck ==
    (pc = "idle" /\ tick.playing) =>
        /\ ~tick.off_track =>
              (tick.obstacle_hit <=> (level >= 1 /\ ~jump_active /\ ObstacleUnderShip))
        /\ (level < 1 \/ jump_active) => ~tick.obstacle_hit
        /\ (jump_active /\ tick.game_over) => tick.off_track

\* At level 1 a tick has ended with an obstacle under the ship while a jump
\* is active, and the run goes on.
C17_Witness ==
    /\ pc = "idle" /\ tick.playing /\ Phase = "Playing"
    /\ level >= 1 /\ jump_active /\ ObstacleUnderShip

JumpState == << jump_active, jump_timer, jump_cooldown_timer >>

\* C18: a jump request made while a jump is active or the cooldown is
\* positive leaves jump_active, jump_timer and jump_cooldown_timer as they
\* were; and a jump starts only in phase Playing, with no jump active and the
\* cooldown exactly 0.
C18_JumpRequest ==
    [][ /\ (KeySpace /\ (jump_active \/ jump_cooldown_timer > 0)) =>
              JumpState' = JumpState
        /\ (KeySpace /\ JumpState' # JumpState) =>
              (Phase = "Playing" /\ ~jump_active /\ jump_cooldown_timer = 0)
        /\ (~jump_active /\ jump_active') =>
              (Phase = "Playing" /\ jump_cooldown_timer = 0) ]_vars

\* The run is in phase Playing after a jump has ended and before its cooldown
\* has: the state in which a request is refused, and in which it leaves the
\* program.
C18_Witness ==
    /\ pc = "idle" /\ Phase = "Playing" /\ jump_clock.started
    /\ ~jump_active /\ jump_cooldown_timer > 0

\* A step that starts a jump.
JumpStart == ~jump_active /\ jump_active'

\* C19: a jump start sets jump_timer to JUMP_DURATION and jump_cooldown_timer
\* to JUMP_DURATION + JUMP_COOLDOWN together; when it is not the first jump
\* of the run, at least JUMP_DURATION + JUMP_COOLDOWN of frame time have
\* passed since the previous start; and a started jump is active exactly
\* while less than JUMP_DURATION of frame time have passed since its start.
C19_CooldownFromStart ==
    /\ [][ JumpStart =>
              /\ jump_timer' = JUMP_DURATION
              /\ jump_cooldown_timer' = JUMP_DURATION + JUMP_COOLDOWN
              /\ jump_clock.started =>
                    jump_clock.elapsed >= JUMP_DURATION + JUMP_COOLDOWN ]_vars
    /\ [](jump_clock.started => (jump_active <=> jump_clock.elapsed < JUMP_DURATION))

\* A second jump of the same run is under way.
C19_Witness ==
    /\ jump_clock.starts = 2 /\ jump_clock.elapsed = 0
    /\ jump_active /\ jump_timer = JUMP_DURATION
    /\ jump_cooldown_timer = JUMP_DURATION + JUMP_COOLDOWN

\* The timers are those of a jump started jump_clock.elapsed ago.
TimersFollowClock ==
    jump_clock.started =>
        /\ jump_cooldown_timer = JUMP_DURATION + JUMP_COOLDOWN - jump_clock.elapsed
        /\ jump_active => jump_timer = JUMP_DURATION - jump_clock.elapsed

\* C20: in every phase the jump timers are behind their start values by the
\* frame time elapsed since the jump started (the cooldown stopping at 0),
\* whatever the phase of each frame; and a jump that is active with
\* TicksToLand frames still to come ends.
C20_TimersEveryPhase ==
    /\ [] TimersFollowClock
    /\ (jump_active /\ ticks <= MaxTicks - TicksToLand) ~> ~jump_active

\* The game is paused, and the jump started before the pause has ended and its
\* cooldown has run out.
C20_Witness ==
    /\ Phase = "Paused" /\ jump_clock.started
    /\ ~jump_active /\ jump_cooldown_timer = 0
    /\ jump_clock.elapsed = JUMP_DURATION + JUMP_COOLDOWN

\* The file holds a text that is an integer literal.
HoldsInteger(file) == file.kind = "text" /\ IntParses(strip(file.text))

\* C23: a step that writes the high-score file never leaves a negative
\* integer in it: save_high_score stores a negative value as 0.
C23_SaveClamps ==
    [][ (hs_file' # hs_file /\ HoldsInteger(hs_file')) =>
            int(strip(hs_file'.text)) >= 0 ]_vars

\* The integers a file of the high-score specification can spell.
FileInts == -(10 * MaxScore) .. 10 * MaxScore

\* The characters of t that are not c.
Without(t, c) == SelectSeq(t, LAMBDA ch : ch # c)

Zeros(k) == [ i \in 1 .. k |-> "0" ]

\* Text t spells the integer v: inside leading and trailing whitespace, an
\* optional sign that agrees with v, then the decimal digits of |v| after any
\* number of zeros, with underscores only between two digits.
Spells(t, v) ==
    \E i \in 1 .. Len(t), j \in 1 .. Len(t) :
        /\ i <= j
        /\ \A k \in 1 .. Len(t) : (k < i \/ k > j) => IsSpace(t[k])
        /\ LET core   == SubSeq(t, i, j)
               signed == core[1] \in {"+", "-"}
               body   == IF signed THEN Tail(core) ELSE core
               digits == Without(body, "_")
           IN  /\ ~IsSpace(core[1]) /\ ~IsSpace(core[Len(core)])
               /\ core[1] = "-" => v <= 0
               /\ core[1] # "-" => v >= 0
               /\ body # << >>
               /\ \A k \in 1 .. Len(body) :
                     body[k] = "_" =>
                        /\ k > 1 /\ k < Len(body)
                        /\ IsDigit(body[k - 1]) /\ IsDigit(body[k + 1])
               /\ \E z \in 0 .. Len(digits) - 1 :
                     digits = Zeros(z) \o StrNat(Abs(v))

\* What load_high_score owes for a file: a non-negative integer, 0 when the
\* file is missing, unreadable or spells no integer, max(0, v) when it spells v.
LoadOwes(file, r) ==
    /\ r \in Nat
    /\ file.kind # "text" => r = 0
    /\ (file.kind = "text" /\ ~\E v \in FileInts : Spells(file.text, v)) => r = 0
    /\ \A v \in FileInts :
          (file.kind = "text" /\ Spells(file.text, v)) => r = Max(0, v)

\* C24: whatever the file has become, load_high_score returns a non-negative
\* integer: 0 when the file is missing, unreadable or spells no integer,
\* max(0, v) when it spells the integer v; the value loaded at start-up and by
\* every later load is that one; and once save_high_score(v) has written, for
\* v >= 0, the file loads as v.
C24_LoadContract ==
    /\ [] LoadOwes(hs_file, load_high_score(hs_file))
    /\ [][ /\ LoadScore => LoadOwes(hs_file, high_score')
           /\ \A v \in ScoreValues :
                 (v >= 0 /\ SaveScore /\ hs_file' = save_high_score(v, hs_file, "written"))
                     => load_high_score(hs_file') = v ]_vars

\* A score no start-up file holds has been saved and loaded again.
C24_Witness == hs_file = IntFile(MaxScore - 1) /\ high_score = MaxScore - 1

\* C21: at the end of every tick level is current_y_loop \div 100, and the
\* level changes fired so far in the run are those of bands 1, 2, ... up to
\* the band of current_y_loop, each once and in that order, none for band 0.
C21_LevelFromRow ==
    /\ pc = "idle" => level = current_y_loop \div LEVEL_ROWS
    /\ level_log.fired = [ b \in 1 .. (current_y_loop \div LEVEL_ROWS) |-> b ]

\* A tick has ended ten rows into band 1, after one level change.
C21_Witness ==
    /\ pc = "idle" /\ tick.playing /\ current_y_loop = MaxRow
    /\ level = 1 /\ level_log.fired = << 1 >>

\* C22: in Playing and in Paused, speed_y_base and speed_x_base are the
\* selected difficulty's base speeds times 1.08^level (stated without the
\* division: speed * 100^level = base * 108^level); so a run started after an
\* earlier one reached level 1 has the base speeds again.
C22_SpeedFromLevel ==
    Phase \in {"Playing", "Paused"} =>
        /\ speed_y_base * Pow(100, level)
              = DIFFICULTIES[difficulty].speed * Pow(SPEED_GROWTH, level)
        /\ speed_x_base * Pow(100, level)
              = DIFFICULTIES[difficulty].speed_x * Pow(SPEED_GROWTH, level)

\* A run at another difficulty has been started after a run that reached
\* level 1, and has itself reached level 1.
C22_Witness ==
    /\ Phase = "Playing" /\ pc = "idle" /\ level = 1 /\ difficulty = "Hard"
    /\ last_game_over = NoGameOver /\ high_score > LEVEL_ROWS + 7

\* C25: for every world point with y >= WINDOW_HEIGHT the depth factor is 0
\* and the projection is the vanishing point (perspective_point_x,
\* WINDOW_HEIGHT - perspective_point_y) whatever x is; and the depth factor is
\* never negative.
C25_HorizonClamp ==
    /\ projection.y >= WINDOW_HEIGHT =>
          /\ projection.factor_y.n = 0
          /\ projection.out = << WINDOW_WIDTH \div 2, WINDOW_HEIGHT \div 4 >>
    /\ projection.factor_y.n >= 0 /\ projection.factor_y.d > 0

\* A point past the horizon and off the centre line has been projected.
C25_Witness ==
    /\ projection.y > WINDOW_HEIGHT
    /\ projection.x > WINDOW_WIDTH
    /\ projection.out = << perspective_point_x, WINDOW_HEIGHT - perspective_point_y >>

\* C26: a tick that ends with a jump active, collisions enabled and no tile
\* of rows current_y_loop - 1 .. current_y_loop + 2 under a ship vertex has
\* found the ship off the track and has gone to GameOver.
C26_JumpOffTrack ==
    (pc = "idle" /\ tick.playing /\ jump_active /\ allow_collisions /\ ShipOffTrack) =>
        (tick.off_track /\ tick.game_over /\ Phase = "GameOver")

\* A run has ended off the track in the middle of a jump.
C26_Witness ==
    /\ pc = "idle" /\ tick.playing /\ tick.off_track /\ tick.game_over
    /\ jump_active /\ ShipOffTrack /\ Phase = "GameOver"

\* C27: for LABEL_MS after a level change to band b the label is shown with
\* the text LEVEL b + 1, and for FLASH_MS after it the flash is shown, whether
\* or not callbacks of an earlier level change are still pending.
C27_BannerStays ==
    level_log.band > 0 =>
        /\ level_log.elapsed < Ms(LABEL_MS) =>
              /\ level_banner.text_state = "normal"
              /\ level_banner.text = level_log.band + 1
        /\ level_log.elapsed < Ms(FLASH_MS) =>
              level_banner.flash_state = "normal"

\* C29: the menu music is not playing while the phase is Playing or Paused,
\* and the menu music and the game music never play at the same time.
C29_MusicExclusive ==
    /\ Phase \in {"Playing", "Paused"} => ~audio.menu_music
    /\ ~(audio.menu_music /\ audio.game_music)

\* C28: the list of tile coordinates never holds more than NB_TILES entries.
C28_AtMostNbTiles == Len(tiles_coordinates) <= NB_TILES

\* C30: state_game_over and state_game_has_started are never both set, and
\* paused holds only in a started game that is not over; GameOver is entered
\* only from Playing and not a second time in the same run, and it is left
\* only by the menu button, into Playing.
C30_PhaseFlags ==
    /\ [](/\ ~(state_game_over /\ state_game_has_started)
          /\ paused => (state_game_has_started /\ ~state_game_over))
    /\ [][ /\ (~state_game_over /\ state_game_over') =>
                 (Phase = "Playing" /\ ~last_game_over.happened)
           /\ (state_game_over /\ ~state_game_over') =>
                 (MenuButton(TurnRows) /\ Phase' = "Playing") ]_vars

\* A run that was paused and resumed has ended, and a new one is being played.
C30_Witness ==
    /\ Phase = "Playing" /\ last_game_over = NoGameOver
    /\ high_score > 7 /\ ticks = MaxTicks

\* C31: between frames, an active jump has jump_timer > 0 and
\* jump_cooldown_timer = jump_timer + JUMP_COOLDOWN; and jump_cooldown_timer
\* is never negative.
C31_JumpTimers ==
    /\ (pc = "idle" /\ jump_active) =>
          /\ jump_timer > 0
          /\ jump_cooldown_timer = jump_timer + JUMP_COOLDOWN
    /\ jump_cooldown_timer >= 0

\* A frame has passed since the jump started, and the jump is still active.
C31_Witness ==
    /\ pc = "idle" /\ jump_active
    /\ jump_timer < JUMP_DURATION /\ jump_clock.elapsed > 0

\* The cell c = << lane, row >> holds a ship vertex in its box, by the test of
\* _check_ship_collision_with_tile in the current scroll position.
HoldsShipVertex(c) ==
    CheckShipCollisionWithTile(c[1], c[2], current_y_loop,
                               current_offset_y, current_offset_x)

\* C32: between frames, every tile and every active obstacle whose box holds
\* a ship vertex has its row in the window current_y_loop - 1 ..
\* current_y_loop + 2, so both checks give the result of the same test made
\* over every tile and over every active obstacle.
C32_WindowHidesNoHit ==
    pc = "idle" =>
        /\ \A i \in TileIndexes :
              HoldsShipVertex(tiles_coordinates[i]) =>
                  InRowWindow(tiles_coordinates[i][2], current_y_loop)
        /\ \A i \in ActiveObstacles(obstacle_coords) :
              HoldsShipVertex(obstacle_coords[i]) =>
                  InRowWindow(obstacle_coords[i][2], current_y_loop)
        /\ CheckShipCollisions(TRUE, tiles_coordinates, current_y_loop,
                               current_offset_y, current_offset_x)
              <=> ~ \E i \in TileIndexes : HoldsShipVertex(tiles_coordinates[i])
        /\ CheckObstacleCollision(1, FALSE, obstacle_coords, current_y_loop,
                                  current_offset_y, current_offset_x)
              <=> \E i \in ActiveObstacles(obstacle_coords) :
                      HoldsShipVertex(obstacle_coords[i])

\* Between frames a tile of the row ahead of the ship's holds a ship vertex,
\* and so does an active obstacle, while other tiles lie beyond the window.
C32_Witness ==
    /\ pc = "idle" /\ ticks > 0
    /\ \E i \in TileIndexes :
          /\ tiles_coordinates[i][2] = current_y_loop + 1
          /\ HoldsShipVertex(tiles_coordinates[i])
    /\ \E i \in ActiveObstacles(obstacle_coords) : HoldsShipVertex(obstacle_coords[i])
    /\ \E i \in TileIndexes : ~InRowWindow(tiles_coordinates[i][2], current_y_loop)

\* C33: between frames, current_speed_x is 0, speed_x_base or -speed_x_base.
C33_IntentMagnitude ==
    pc = "idle" => current_speed_x \in {0, speed_x_base, 0 - speed_x_base}

=============================================================================
